---- MODULE Spec2Model ----
(***************************************************************************)
(* Model of src/obsapi.cc: the N-API binding that drives the OBS engine.   *)
(*                                                                         *)
(* One control thread dispatches the exported commands (the static Create  *)
(* functions, obsShutdown) and runs the OnOK/OnError continuations of      *)
(* Napi::AsyncWorker.  Each queued worker runs its Execute on a thread of  *)
(* the pool, concurrently with the control thread and with other workers;  *)
(* every native call of an Execute is one step of the model.               *)
(***************************************************************************)
EXTENDS Integers, Sequences, FiniteSets, Bags, TLC

VARIABLES
    initialized,   \* obs_initialized(): the engine's process-wide flag
    workers,       \* the bag of AsyncWorker objects queued or running
    lastCall,      \* history: the command the last step dispatched, if it was one
    lastSettled,   \* history: the worker whose promise the last step settled, if any
    lastNative     \* history: the native calls the last step made, and on what engine

vars == <<initialized, workers, lastCall, lastSettled, lastNative>>

-----------------------------------------------------------------------------
(* Bounds *)

\* Number of AsyncWorker objects that may be queued or running at once.
MaxInFlight == 2

\* Length of the size hints enumerated for the parsing of resetVideo.
MaxHintLen == 3

-----------------------------------------------------------------------------
(* Program constants: src/obsapi.cc lines 25-26 *)

DEFAULT_VIDEO_WIDTH == 640
DEFAULT_VIDEO_HEIGHT == 360

\* Line 31: "Error: OBS API not initialized!"
NOT_INITIALIZED_STRING ==
    <<"E", "r", "r", "o", "r", ":", " ", "O", "B", "S", " ", "A", "P",
      "I", " ", "n", "o", "t", " ", "i", "n", "i", "t", "i", "a", "l",
      "i", "z", "e", "d", "!">>

\* nullptr
Null == "nullptr"

\* The four resource kinds of one streaming session (fields at lines 381-384).
Kinds == {"video_encoder", "audio_encoder", "output", "streaming_service"}

ZeroCount == [k \in Kinds |-> 0]

-----------------------------------------------------------------------------
(* Command arguments.  A JavaScript string is a sequence of characters.    *)

VideoHints == { <<"2", "x", "1">>, <<"x", "a">> }
AudioHints == { <<"m", "o", "n", "o">>, <<"a">> }
StartHints == { <<"a">> }

\* A JavaScript value: a string or something that is not a string.
StrArg(s) == [isString |-> TRUE, str |-> s]
NumArg == [isString |-> FALSE, str |-> <<>>]

\* The argument lists (info) a host may pass with the hints of one command:
\* one value that is no string, two values, or one string.
ArgLists(hints) ==
    {<<NumArg>>, <<StrArg(<<>>), NumArg>>} \cup {<<StrArg(h)>> : h \in hints}

\* Mutant of BadArguments: the number of arguments is not checked.
BadArguments_NoLengthCheck(info) == Len(info) = 0 \/ ~info[1].isString

\* info.Length() != 1 || !info[0].IsString()   (lines 199, 270, 330)
BadArguments(info) == Len(info) # 1 \/ ~info[1].isString

-----------------------------------------------------------------------------
(* String helpers used by the Execute bodies *)

\* std::string::find(char): index (1-based) of the first occurrence, 0 for npos
RECURSIVE FindFrom(_, _, _)
FindFrom(s, c, i) ==
    IF i > Len(s) THEN 0
    ELSE IF s[i] = c THEN i
    ELSE FindFrom(s, c, i + 1)

Find(s, c) == FindFrom(s, c, 1)

\* std::string::find("mono") != npos
ContainsMono(s) ==
    \E i \in 1..Len(s) :
        /\ i + 3 <= Len(s)
        /\ SubSeq(s, i, i + 3) = <<"m", "o", "n", "o">>

Digits == {"0", "1", "2", "3", "4", "5", "6", "7", "8", "9"}

DigitVal(c) ==
    CASE c = "0" -> 0 [] c = "1" -> 1 [] c = "2" -> 2 [] c = "3" -> 3
      [] c = "4" -> 4 [] c = "5" -> 5 [] c = "6" -> 6 [] c = "7" -> 7
      [] c = "8" -> 8 [] c = "9" -> 9

\* atoi on a string without sign characters: skip leading blanks, then read
\* decimal digits up to the first character that is not a digit.
RECURSIVE AtoiDigits(_, _, _)
AtoiDigits(s, i, acc) ==
    IF i > Len(s) \/ s[i] \notin Digits THEN acc
    ELSE AtoiDigits(s, i + 1, acc * 10 + DigitVal(s[i]))

RECURSIVE SkipBlanks(_, _)
SkipBlanks(s, i) ==
    IF i <= Len(s) /\ s[i] = " " THEN SkipBlanks(s, i + 1) ELSE i

Atoi(s) == AtoiDigits(s, SkipBlanks(s, 1), 0)

\* Mutant of ParseSizeHint: the width and the 'x' are not erased from the
\* input before the height is read.
ParseSizeHint_NoErase(input) ==
    LET xpos == Find(input, "x") IN
    IF xpos = 0
    THEN <<DEFAULT_VIDEO_WIDTH, DEFAULT_VIDEO_HEIGHT>>
    ELSE LET w == SubSeq(input, 1, xpos - 1)
             h == input
         IN <<IF Len(w) > 0 THEN Atoi(w) ELSE DEFAULT_VIDEO_WIDTH,
              IF Len(h) > 0 THEN Atoi(h) ELSE DEFAULT_VIDEO_HEIGHT>>

\* Lines 215-228: the size parsed from the hint of resetVideo.
ParseSizeHint(input) ==
    LET xpos == Find(input, "x") IN
    IF xpos = 0
    THEN <<DEFAULT_VIDEO_WIDTH, DEFAULT_VIDEO_HEIGHT>>
    ELSE LET w == SubSeq(input, 1, xpos - 1)
             h == SubSeq(input, xpos + 1, Len(input))
         IN <<IF Len(w) > 0 THEN Atoi(w) ELSE DEFAULT_VIDEO_WIDTH,
              IF Len(h) > 0 THEN Atoi(h) ELSE DEFAULT_VIDEO_HEIGHT>>


\* std::to_string of a non-negative integer
DigitChar(d) ==
    CASE d = 0 -> "0" [] d = 1 -> "1" [] d = 2 -> "2" [] d = 3 -> "3"
      [] d = 4 -> "4" [] d = 5 -> "5" [] d = 6 -> "6" [] d = 7 -> "7"
      [] d = 8 -> "8" [] d = 9 -> "9"

RECURSIVE to_string(_)
to_string(n) ==
    IF n < 10 THEN <<DigitChar(n)>>
    ELSE to_string(n \div 10) \o <<DigitChar(n % 10)>>

\* obs_get_version_string(): fixed by the engine build
ObsVersion == <<"2", "7">>

-----------------------------------------------------------------------------
(* Workers *)

\* The fields of a worker object.  hint, acq, rel, bound, attached, calls,
\* startCalled and started are history: the constructor's argument (input
\* is edited at line 220), the handles obtained and released, what the
\* engine was told, and the native calls made so far.
NoWorker ==
    [kind |-> "none", pc |-> "free", hint |-> <<>>, input |-> <<>>, error |-> "",
     result |-> <<>>, ovi |-> <<0, 0>>, oai |-> "unset",
     video_encoder |-> Null, audio_encoder |-> Null,
     output |-> Null, streaming_service |-> Null,
     acq |-> ZeroCount, rel |-> ZeroCount,
     bound |-> {}, attached |-> {},
     calls |-> <<>>, startCalled |-> FALSE, started |-> FALSE,
     promise |-> "pending", value |-> <<>>]

\* A worker as its constructor leaves it (lines 161-164, 247-250, 308-311,
\* 376-385), already queued.
NewWorker(kind, hint) ==
    [NoWorker EXCEPT !.kind = kind, !.pc = "queued", !.hint = hint, !.input = hint]

InFlight == BagToSet(workers)

\* new ...Worker(...); worker->Queue()
Queue(kind, hint) ==
    /\ BagCardinality(workers) < MaxInFlight
    /\ workers' = workers (+) SetToBag({NewWorker(kind, hint)})

\* The session of a start worker is the one the program reports as started
\* from the return of Execute (the result of obs_output_start is discarded
\* at line 362) until the continuation releases it.
SessionRunning ==
    \E w \in InFlight : w.kind = "start" /\ w.pc = "executed"

\* The history entry of one dispatched command.
Call(cmd, info, outcome, queued) ==
    [cmd |-> cmd, init |-> initialized, outcome |-> outcome, queued |-> queued,
     running |-> SessionRunning,
     argc |-> Len(info), isString |-> (Len(info) > 0 /\ info[1].isString),
     names |-> <<>>, value |-> <<>>]

NoCall == [cmd |-> "none", init |-> FALSE, outcome |-> "none", queued |-> FALSE,
           running |-> FALSE, argc |-> 0, isString |-> FALSE,
           names |-> <<>>, value |-> <<>>]

\* The history entry of the native calls of one step.  obs_initialized(),
\* a read of the flag, is not recorded.
Native(ops) == [ops |-> ops, init |-> initialized]

NoNative == [ops |-> <<>>, init |-> FALSE]

-----------------------------------------------------------------------------
(* Commands dispatched on the control thread *)

\* Mutant of Initialize: the obs_initialized() check after obs_startup is
\* missing.
Initialize_NoStartupCheck(ok) ==
    /\ initialized' = (initialized \/ ok)
    /\ Queue("init", <<>>)
    /\ lastCall' = Call("initialize", <<>>, "promise", TRUE)
    /\ lastNative' = Native(<<"obs_startup", "obs_load_all_modules">>)
    /\ lastSettled' = NoWorker

\* AsyncInitializeWorker::Create (lines 124-145).  obs_startup leaves an
\* engine that is already initialized as it is; otherwise it succeeds or fails.
Initialize(ok) ==
    LET up == initialized \/ ok IN
    /\ initialized' = up
    /\ IF ~up
       THEN /\ lastCall' = Call("initialize", <<>>, "throw_not_initialized", FALSE)
            /\ lastNative' = Native(<<"obs_startup">>)
            /\ UNCHANGED workers
       ELSE /\ Queue("init", <<>>)
            /\ lastCall' = Call("initialize", <<>>, "promise", TRUE)
            /\ lastNative' = Native(<<"obs_startup", "obs_load_all_modules">>)
    /\ lastSettled' = NoWorker

\* Mutant of obsShutdown: the engine is told nothing, the flag stays set.
obsShutdown_KeepsFlag ==
    /\ lastCall' = Call("shutdown", <<>>, IF initialized THEN "return_success"
                                    ELSE "return_not_initialized", FALSE)
    /\ lastNative' = NoNative
    /\ lastSettled' = NoWorker
    /\ UNCHANGED <<initialized, workers>>

\* Lines 173-182
obsShutdown ==
    /\ IF initialized
       THEN /\ initialized' = FALSE
            /\ lastCall' = Call("shutdown", <<>>, "return_success", FALSE)
            /\ lastNative' = Native(<<"obs_shutdown">>)
       ELSE /\ UNCHANGED initialized
            /\ lastCall' = Call("shutdown", <<>>, "return_not_initialized", FALSE)
            /\ lastNative' = NoNative
    /\ lastSettled' = NoWorker
    /\ UNCHANGED workers

\* Mutant of CreateWorker: the obs_initialized() check is missing.
CreateWorker_NoEngineCheck(cmd, kind, info) ==
    /\ IF BadArguments(info)
       THEN /\ lastCall' = Call(cmd, info, "throw_bad_argument", FALSE)
            /\ UNCHANGED workers
       ELSE /\ Queue(kind, info[1].str)
            /\ lastCall' = Call(cmd, info, "promise", TRUE)
    /\ lastNative' = NoNative
    /\ lastSettled' = NoWorker
    /\ UNCHANGED initialized

\* What the engine's enumeration of encoders or of outputs may deliver: the
\* names of the objects it holds.
Enumerations == { <<>>, << <<"a", "a", "c">>, <<"h">> >> }

\* enumCodecs / enumOutputs (lines 73-81, 98-106), called once per object:
\* the name is appended to the string.
RECURSIVE Enumerate(_, _)
Enumerate(names, acc) ==
    IF names = <<>> THEN acc
    ELSE Enumerate(Tail(names), acc \o Head(names))

\* Mutant of Query: the engine is enumerated without the obs_initialized()
\* check.
Query_NoEngineCheck(cmd, op, names) ==
    /\ lastCall' = [Call(cmd, <<>>, "return_names", FALSE) EXCEPT
                       !.names = names,
                       !.value = Enumerate(names, <<>>)]
    /\ lastNative' = Native(<<op>>)
    /\ lastSettled' = NoWorker
    /\ UNCHANGED <<initialized, workers>>

\* obsGetCodecs and obsGetOutputs (lines 83-94, 108-119), which differ in
\* the enumeration called.
Query(cmd, op, names) ==
    /\ IF initialized
       THEN /\ lastCall' = [Call(cmd, <<>>, "return_names", FALSE) EXCEPT
                               !.names = names,
                               !.value = Enumerate(names, <<>>)]
            /\ lastNative' = Native(<<op>>)
       ELSE /\ lastCall' = [Call(cmd, <<>>, "return_not_initialized", FALSE) EXCEPT
                               !.value = NOT_INITIALIZED_STRING]
            /\ lastNative' = NoNative
    /\ lastSettled' = NoWorker
    /\ UNCHANGED <<initialized, workers>>

obsGetCodecs(names) == Query("getCodecs", "obs_enum_encoders", names)

obsGetOutputs(names) == Query("getOutputs", "obs_enum_outputs", names)

\* The Create of the three workers that take a hint (lines 190-211,
\* 261-282, 321-342): the engine check, the argument check, the queueing.
CreateWorker(cmd, kind, info) ==
    /\ IF ~initialized
       THEN /\ lastCall' = Call(cmd, info, "throw_not_initialized", FALSE)
            /\ UNCHANGED workers
       ELSE IF BadArguments(info)
       THEN /\ lastCall' = Call(cmd, info, "throw_bad_argument", FALSE)
            /\ UNCHANGED workers
       ELSE /\ Queue(kind, info[1].str)
            /\ lastCall' = Call(cmd, info, "promise", TRUE)
    /\ lastNative' = NoNative
    /\ lastSettled' = NoWorker
    /\ UNCHANGED initialized

ResetVideoCreate(info) == CreateWorker("resetVideo", "video", info)

ResetAudioCreate(info) == CreateWorker("resetAudio", "audio", info)

StartOutputCreate(info) == CreateWorker("startOutput", "start", info)

-----------------------------------------------------------------------------
(* Execute bodies, each on a pool thread *)

\* One step of worker w: its object becomes v, having made native call op.
Step(w, v, op) ==
    /\ workers' = (workers (-) SetToBag({w}))
                      (+) SetToBag({[v EXCEPT !.calls = Append(@, op)]})
    /\ lastNative' = Native(<<op>>)
    /\ lastCall' = NoCall
    /\ lastSettled' = NoWorker
    /\ UNCHANGED initialized

At(w, kind, pc) == w.kind = kind /\ w.pc = pc

\* Lines 148-150
InitializeExecute(w) ==
    /\ At(w, "init", "queued")
    /\ Step(w, [w EXCEPT !.result = <<"v">> \o ObsVersion, !.pc = "executed"],
            "obs_get_version_string")

\* Lines 214-234
ResetVideoExecute(w) ==
    /\ At(w, "video", "queued")
    /\ LET xpos == Find(w.input, "x")
       IN Step(w, [w EXCEPT !.ovi = ParseSizeHint(w.input),
                            !.input = IF xpos = 0 THEN @
                                      ELSE SubSeq(@, xpos + 1, Len(@)),
                            !.pc = "executed"],
               "obs_reset_video")

\* Lines 285-295
ResetAudioExecute(w) ==
    /\ At(w, "audio", "queued")
    /\ Step(w, [w EXCEPT !.oai = IF ContainsMono(w.input) THEN "mono"
                                 ELSE "stereo",
                         !.pc = "executed"],
            "obs_reset_audio")

\* The handle a successful create call returns: a pointer that is not null,
\* owned by the worker whose field holds it.
Handle(kind) == kind

\* The worker after a create call for the field named kind: the engine
\* returns a handle (ok) or NULL.
Created(w, kind, ok) ==
    [w EXCEPT ![kind] = IF ok THEN Handle(kind) ELSE Null,
              !.acq = IF ok THEN [@ EXCEPT ![kind] = @ + 1] ELSE @]

\* Lines 346-349
CreateVideoEncoder(w, ok) ==
    /\ At(w, "start", "queued")
    /\ Step(w, [Created(w, "video_encoder", ok) EXCEPT !.pc = "L351"],
            "obs_video_encoder_create")

\* Lines 351-355
CreateAudioEncoder(w, ok) ==
    /\ At(w, "start", "L351")
    /\ Step(w, [Created(w, "audio_encoder", ok) EXCEPT !.pc = "L357"],
            "obs_audio_encoder_create")

\* What binding the encoder in the field named kind to the engine's
\* pipeline leaves bound: nothing changes for an encoder that does not exist.
Bind(w, kind) ==
    IF w[kind] # Null THEN w.bound \cup {kind} ELSE w.bound

\* Line 357
EncoderSetVideo(w) ==
    /\ At(w, "start", "L357")
    /\ Step(w, [w EXCEPT !.bound = Bind(w, "video_encoder"), !.pc = "L358"],
               "obs_encoder_set_video")

\* Line 358
EncoderSetAudio(w) ==
    /\ At(w, "start", "L358")
    /\ Step(w, [w EXCEPT !.bound = Bind(w, "audio_encoder"), !.pc = "L359"],
               "obs_encoder_set_audio")

\* What attaching the field named kind to the output of w leaves attached:
\* the engine ignores the call on an output that does not exist.
Attach(w, kind) ==
    IF w.output # Null /\ w[kind] # Null
    THEN w.attached \cup {kind} ELSE w.attached

\* Line 359
OutputSetVideoEncoder(w) ==
    /\ At(w, "start", "L359")
    /\ Step(w, [w EXCEPT !.attached = Attach(w, "video_encoder"),
                            !.pc = "L360"],
               "obs_output_set_video_encoder")

\* Line 360
OutputSetAudioEncoder(w) ==
    /\ At(w, "start", "L360")
    /\ Step(w, [w EXCEPT !.attached = Attach(w, "audio_encoder"),
                            !.pc = "L361"],
               "obs_output_set_audio_encoder")

\* Line 361
OutputSetService(w) ==
    /\ At(w, "start", "L361")
    /\ Step(w, [w EXCEPT !.attached = Attach(w, "streaming_service"),
                            !.pc = "L362"],
               "obs_output_set_service")

\* Line 362: obs_output_start reports success (ok) only for an output that
\* exists; the result is discarded and Execute returns without SetError.
OutputStart(w, ok) ==
    /\ At(w, "start", "L362")
    /\ Step(w, [w EXCEPT !.startCalled = TRUE,
                            !.started = (w.output # Null /\ ok),
                            !.pc = "executed"],
               "obs_output_start")

-----------------------------------------------------------------------------
(* Continuations, on the control thread *)

\* The release of one field, if it is set, by the native calls ops.
Release(w, kind, ops) ==
    IF w[kind] = Null THEN w
    ELSE [w EXCEPT ![kind] = Null,
                   !.rel = [@ EXCEPT ![kind] = @ + 1],
                   !.calls = @ \o ops]

\* Mutant of cleanup: the audio encoder is not released.
cleanup_SkipsAudioEncoder(w) ==
    LET w1 == Release(w, "output", <<"obs_output_stop", "obs_output_release">>)
        w2 == Release(w1, "video_encoder", <<"obs_encoder_release">>)
    IN Release(w2, "streaming_service", <<"obs_service_release">>)

\* Mutant of cleanup: the encoders are released before the output is
\* stopped and released.
cleanup_EncodersFirst(w) ==
    LET w1 == Release(w, "video_encoder", <<"obs_encoder_release">>)
        w2 == Release(w1, "audio_encoder", <<"obs_encoder_release">>)
        w3 == Release(w2, "output", <<"obs_output_stop", "obs_output_release">>)
    IN Release(w3, "streaming_service", <<"obs_service_release">>)

\* Lines 387-407
cleanup(w) ==
    LET w1 == Release(w, "output", <<"obs_output_stop", "obs_output_release">>)
        w2 == Release(w1, "video_encoder", <<"obs_encoder_release">>)
        w3 == Release(w2, "audio_encoder", <<"obs_encoder_release">>)
    IN Release(w3, "streaming_service", <<"obs_service_release">>)

\* deferredPromise.Resolve(v)
Resolve(w, v) == [w EXCEPT !.promise = "resolved", !.value = v, !.pc = "settled"]

\* deferredPromise.Reject(e.Value())
Reject(w) == [w EXCEPT !.promise = "rejected", !.value = <<>>, !.pc = "settled"]

\* Mutant of StartOutputOnOK: the promise is resolved without cleanup.
StartOutputOnOK_NoCleanup(w) == Resolve(w, <<"o", "k">>)

\* Lines 365-368
StartOutputOnOK(w) == Resolve(cleanup(w), <<"o", "k">>)

\* Lines 152-154, 236-239, 297-300, 365-368
OnOK(w) ==
    CASE w.kind = "init"  -> Resolve(w, w.result)
      [] w.kind = "video" ->
            Resolve(w, to_string(w.ovi[1]) \o <<"x">> \o to_string(w.ovi[2]))
      [] w.kind = "audio" ->
            Resolve(w, IF w.oai = "stereo" THEN <<"s", "t", "e", "r", "e", "o">>
                       ELSE <<"m", "o", "n", "o">>)
      [] w.kind = "start" -> StartOutputOnOK(w)

\* Lines 156-158, 241-243, 302-304, 370-373
OnError(w) ==
    IF w.kind = "start" THEN Reject(cleanup(w)) ELSE Reject(w)

\* Mutant of OnWorkComplete: the worker is not destroyed after its
\* continuation and stays ready for completion.
OnWorkComplete_NoDestroy(w) ==
    /\ w.pc = "executed"
    /\ LET done == IF w.error = "" THEN OnOK(w) ELSE OnError(w)
       IN /\ lastSettled' = done
          /\ lastNative' =
                Native(SubSeq(done.calls, Len(w.calls) + 1, Len(done.calls)))
    /\ workers' = workers
    /\ lastCall' = NoCall
    /\ UNCHANGED initialized

\* Completion of a Napi::AsyncWorker: OnOK unless Execute set an error, then
\* the worker object is destroyed.  No Execute of this file calls SetError
\* or throws, so error is "" throughout.
OnWorkComplete(w) ==
    /\ w.pc = "executed"
    /\ LET done == IF w.error = "" THEN OnOK(w) ELSE OnError(w)
       IN /\ lastSettled' = done
          /\ lastNative' =
                Native(SubSeq(done.calls, Len(w.calls) + 1, Len(done.calls)))
    /\ workers' = workers (-) SetToBag({w})
    /\ lastCall' = NoCall
    /\ UNCHANGED initialized

-----------------------------------------------------------------------------

Init ==
    /\ initialized = FALSE
    /\ workers = EmptyBag
    /\ lastCall = NoCall
    /\ lastSettled = NoWorker
    /\ lastNative = NoNative

Next ==
    \/ \E ok \in BOOLEAN : Initialize(ok)
    \/ obsShutdown
    \/ \E names \in Enumerations : obsGetCodecs(names)
    \/ \E names \in Enumerations : obsGetOutputs(names)
    \/ \E info \in ArgLists(VideoHints) : ResetVideoCreate(info)
    \/ \E info \in ArgLists(AudioHints) : ResetAudioCreate(info)
    \/ \E info \in ArgLists(StartHints) : StartOutputCreate(info)
    \/ \E w \in InFlight : InitializeExecute(w)
    \/ \E w \in InFlight : ResetVideoExecute(w)
    \/ \E w \in InFlight : ResetAudioExecute(w)
    \/ \E w \in InFlight, ok \in BOOLEAN : CreateVideoEncoder(w, ok)
    \/ \E w \in InFlight, ok \in BOOLEAN : CreateAudioEncoder(w, ok)
    \/ \E w \in InFlight : EncoderSetVideo(w)
    \/ \E w \in InFlight : EncoderSetAudio(w)
    \/ \E w \in InFlight : OutputSetVideoEncoder(w)
    \/ \E w \in InFlight : OutputSetAudioEncoder(w)
    \/ \E w \in InFlight : OutputSetService(w)
    \/ \E w \in InFlight, ok \in BOOLEAN : OutputStart(w, ok)
    \/ \E w \in InFlight : OnWorkComplete(w)

Spec == Init /\ [][Next]_vars

-----------------------------------------------------------------------------
(* resetVideo alone, for every size hint up to MaxHintLen characters *)

HintAlphabet == {"0", "1", "x", "a"}

HintStrings == UNION {[1..n -> HintAlphabet] : n \in 0..MaxHintLen}

\* resetVideo(h) has just been dispatched on an initialized engine.
InitParse ==
    /\ initialized = TRUE
    /\ \E h \in HintStrings :
          /\ workers = SetToBag({NewWorker("video", h)})
          /\ lastCall = Call("resetVideo", <<StrArg(h)>>, "promise", TRUE)
    /\ lastSettled = NoWorker
    /\ lastNative = NoNative

NextParse ==
    \/ \E w \in InFlight : ResetVideoExecute(w)
    \/ \E w \in InFlight : OnWorkComplete(w)

SpecParse == InitParse /\ [][NextParse]_vars

-----------------------------------------------------------------------------
(* cleanup alone, for every combination of handles a worker can hold *)

\* The calls of Execute, lines 345-363.
ExecuteCalls ==
    <<"obs_video_encoder_create", "obs_audio_encoder_create",
      "obs_encoder_set_video", "obs_encoder_set_audio",
      "obs_output_set_video_encoder", "obs_output_set_audio_encoder",
      "obs_output_set_service", "obs_output_start">>

\* A start worker whose Execute has returned holding the handles in held,
\* with the error message error.
Executed(held, error) ==
    [NewWorker("start", <<"a">>) EXCEPT
        !.pc = "executed",
        !.input = <<"a">>,
        !.error = error,
        !.video_encoder = IF "video_encoder" \in held THEN Handle("video_encoder") ELSE Null,
        !.audio_encoder = IF "audio_encoder" \in held THEN Handle("audio_encoder") ELSE Null,
        !.output = IF "output" \in held THEN Handle("output") ELSE Null,
        !.streaming_service =
            IF "streaming_service" \in held THEN Handle("streaming_service") ELSE Null,
        !.acq = [k \in Kinds |-> IF k \in held THEN 1 ELSE 0],
        !.bound = held \cap {"video_encoder", "audio_encoder"},
        !.attached = IF "output" \in held THEN held \ {"output"} ELSE {},
        !.calls = ExecuteCalls,
        !.startCalled = TRUE,
        !.started = ("output" \in held)]

\* Execute has just returned, before or after a shutdown.
InitCleanup ==
    /\ initialized \in BOOLEAN
    /\ \E held \in SUBSET Kinds, error \in {"", "e"} :
          workers = SetToBag({Executed(held, error)})
    /\ lastCall = NoCall
    /\ lastSettled = NoWorker
    /\ lastNative = Native(<<"obs_output_start">>)

NextCleanup == \E w \in InFlight : OnWorkComplete(w)

SpecCleanup == InitCleanup /\ [][NextCleanup]_vars

-----------------------------------------------------------------------------
(* Queued workers left to the thread pool and the event loop *)

\* The workers the commands can queue.
QueuedWorkers ==
    {NewWorker("init", <<>>)}
        \cup {NewWorker("video", h) : h \in VideoHints}
        \cup {NewWorker("audio", h) : h \in AudioHints}
        \cup {NewWorker("start", h) : h \in StartHints}

\* Some commands have queued their workers and no further command is made.
InitQueued ==
    /\ initialized = TRUE
    /\ workers \in {b \in SubBag(SetToBag(QueuedWorkers) (+) SetToBag(QueuedWorkers)) :
                      BagCardinality(b) \in 1..MaxInFlight}
    /\ lastCall = NoCall
    /\ lastSettled = NoWorker
    /\ lastNative = NoNative

\* A step of the thread pool: the next call of the Execute of some worker.
PoolNext ==
    \/ \E w \in InFlight : InitializeExecute(w)
    \/ \E w \in InFlight : ResetVideoExecute(w)
    \/ \E w \in InFlight : ResetAudioExecute(w)
    \/ \E w \in InFlight, ok \in BOOLEAN : CreateVideoEncoder(w, ok)
    \/ \E w \in InFlight, ok \in BOOLEAN : CreateAudioEncoder(w, ok)
    \/ \E w \in InFlight : EncoderSetVideo(w)
    \/ \E w \in InFlight : EncoderSetAudio(w)
    \/ \E w \in InFlight : OutputSetVideoEncoder(w)
    \/ \E w \in InFlight : OutputSetAudioEncoder(w)
    \/ \E w \in InFlight : OutputSetService(w)
    \/ \E w \in InFlight, ok \in BOOLEAN : OutputStart(w, ok)

\* A step of the event loop: the completion of some worker.
LoopNext == \E w \in InFlight : OnWorkComplete(w)

NextQueued == PoolNext \/ LoopNext

\* The pool runs the work it was given and the loop runs the completions
\* posted to it.
SpecQueued ==
    InitQueued /\ [][NextQueued]_vars /\ WF_vars(PoolNext) /\ WF_vars(LoopNext)

-----------------------------------------------------------------------------
(* Properties *)

\* The commands that need an initialized engine.
EngineCommands == {"shutdown", "resetVideo", "resetAudio", "startOutput"}

ResetCommands == {"resetVideo", "resetAudio"}

\* The native calls of initialize, in Create and in Execute.
InitializeOps == {"obs_startup", "obs_load_all_modules", "obs_get_version_string"}

Range(f) == {f[i] : i \in DOMAIN f}

\* The start attempt whose promise the last step settled.
AttemptSettled == lastSettled.kind = "start" /\ lastSettled.promise # "pending"

\* C1: when a Start-Output attempt has ended, each of the four resource
\* kinds has been released as many times as it was acquired, and no worker
\* in flight has released more than it acquired.
C1_ResourceSymmetry ==
    /\ AttemptSettled => \A k \in Kinds : lastSettled.acq[k] = lastSettled.rel[k]
    /\ \A w \in InFlight : \A k \in Kinds : w.rel[k] <= w.acq[k]

\* An attempt that acquired both encoders has ended, each released once.
C1_Witness ==
    /\ AttemptSettled
    /\ lastSettled.acq["video_encoder"] = 1 /\ lastSettled.rel["video_encoder"] = 1
    /\ lastSettled.acq["audio_encoder"] = 1 /\ lastSettled.rel["audio_encoder"] = 1

\* C2: when the promise of startOutput is settled, none of the four handle
\* fields of the attempt is set any more, and a worker still in flight has a
\* pending promise.
C2_NoHandleOutlivesAttempt ==
    /\ lastSettled.kind = "start" =>
          /\ lastSettled.promise # "pending"
          /\ \A k \in Kinds : lastSettled[k] = Null
    /\ \A w \in InFlight : w.promise = "pending"

\* An attempt that held a video encoder, and no audio encoder, was settled.
C2_Witness ==
    /\ AttemptSettled
    /\ lastSettled.acq["video_encoder"] = 1
    /\ lastSettled.acq["audio_encoder"] = 0
    /\ "obs_encoder_release" \in Range(lastNative.ops)

\* C3: a resetVideo or resetAudio dispatched while a session is Running
\* fails: it queues no worker (and so never reaches the engine's reset).
C3_ResetRefusedWhileRunning ==
    (lastCall.cmd \in ResetCommands /\ lastCall.running) =>
        (lastCall.outcome # "promise" /\ ~lastCall.queued)

\* C4: startOutput resolves only if all four resources were acquired and
\* the native start call reported success.
C4_ResolvedOnlyIfStarted ==
    (AttemptSettled /\ lastSettled.promise = "resolved") =>
        /\ lastSettled.started
        /\ \A k \in Kinds : lastSettled.acq[k] > 0

\* C5: the native start call is only made on an output that exists and has
\* both encoders and the service attached, each encoder bound before.
C5_StartOnlyOnReadyOutput ==
    \A w \in InFlight :
        w.startCalled =>
            /\ w.output # Null
            /\ w.attached = {"video_encoder", "audio_encoder", "streaming_service"}
            /\ w.bound = {"video_encoder", "audio_encoder"}

\* A create call of the attempt returned NULL.
CreationFailed(w) ==
    \/ "obs_video_encoder_create" \in Range(w.calls) /\ w.acq["video_encoder"] = 0
    \/ "obs_audio_encoder_create" \in Range(w.calls) /\ w.acq["audio_encoder"] = 0

LaterSteps ==
    {"obs_encoder_set_video", "obs_encoder_set_audio",
     "obs_output_set_video_encoder", "obs_output_set_audio_encoder",
     "obs_output_set_service", "obs_output_start"}

\* C6: an attempt in which a creation step failed performs no binding,
\* attaching or start step, and its promise is not resolved.
C6_CreationFailureSurfaced ==
    \A w \in InFlight \cup {lastSettled} :
        (w.kind = "start" /\ CreationFailed(w)) =>
            /\ Range(w.calls) \cap LaterSteps = {}
            /\ w.promise # "resolved"

C8_NativeOnlyWhileInitialized ==
    (Range(lastNative.ops) \ InitializeOps # {}) => lastNative.init

\* The start workers whose Execute has begun and whose cleanup has not run.
AttemptsInProgress == {w \in InFlight : w.kind = "start" /\ w.pc # "queued"}

\* C9: at most one Start-Output attempt is between its first acquire step
\* and its release.
C9_OneAttemptAtATime ==
    /\ Cardinality(AttemptsInProgress) <= 1
    /\ \A w \in AttemptsInProgress : CopiesIn(w, workers) = 1

\* C10: a successful shutdown leaves the engine not initialized; only a
\* successful initialize makes it initialized again; and a command that
\* needs the engine, dispatched in between, is refused as not initialized
\* and queues nothing.
C10_UninitializedUntilInitialize ==
    [][/\ (lastCall'.cmd = "shutdown" /\ lastCall'.outcome = "return_success")
             => ~initialized'
       /\ (~initialized /\ initialized')
             => (lastCall'.cmd = "initialize" /\ lastCall'.outcome = "promise")
       /\ (~initialized /\ lastCall'.cmd \in EngineCommands)
             => /\ lastCall'.outcome \in {"throw_not_initialized",
                                          "return_not_initialized"}
                /\ workers' = workers]_vars

\* resetVideo was refused on an engine that a shutdown left with a start
\* worker in flight.
C10_Witness ==
    /\ ~initialized
    /\ lastCall.cmd = "resetVideo"
    /\ lastCall.outcome = "throw_not_initialized"
    /\ \E w \in InFlight : w.kind = "start"

\* C11: initialize dispatched on an engine that is already initialized is
\* reported as an error: it returns no promise and queues no worker.
C11_InitializeTwiceIsError ==
    (lastCall.cmd = "initialize" /\ lastCall.init) =>
        (lastCall.outcome # "promise" /\ ~lastCall.queued)

\* C12: initialize calls obs_startup first; if the engine is then not
\* initialized it throws, having loaded no module and queued no worker;
\* otherwise it loads the modules and queues one worker, whose Execute reads
\* the version afterwards, as its only native call.
C12_InitializeOrder ==
    [][/\ (lastCall'.cmd = "initialize" /\ ~initialized') =>
              /\ lastCall'.outcome = "throw_not_initialized"
              /\ lastNative'.ops = <<"obs_startup">>
              /\ workers' = workers
       /\ (lastCall'.cmd = "initialize" /\ initialized') =>
              /\ lastCall'.outcome = "promise"
              /\ lastNative'.ops = <<"obs_startup", "obs_load_all_modules">>
              /\ workers' = workers (+) SetToBag({NewWorker("init", <<>>)})
       /\ \A w \in BagToSet(workers') :
              w.kind = "init" =>
                 w.calls = IF w.pc = "queued" THEN <<>>
                           ELSE <<"obs_get_version_string">>]_vars

\* initialize failed at startup while workers of an earlier engine were
\* still in flight.
C12_Witness ==
    /\ lastCall.cmd = "initialize"
    /\ lastCall.outcome = "throw_not_initialized"
    /\ lastNative.ops = <<"obs_startup">>
    /\ workers # EmptyBag

HintCommands == {"resetVideo", "resetAudio", "startOutput"}

\* C13: on an initialized engine, a resetVideo, resetAudio or startOutput
\* whose arguments are not exactly one string throws the argument error at
\* dispatch: no worker is queued and no native call is made.
C13_BadArgumentsThrow ==
    [][(/\ lastCall'.cmd \in HintCommands
        /\ lastCall'.init
        /\ (lastCall'.argc # 1 \/ ~lastCall'.isString)) =>
           /\ lastCall'.outcome = "throw_bad_argument"
           /\ workers' = workers
           /\ lastNative'.ops = <<>>
           /\ initialized' = initialized]_vars

\* startOutput was given a string and a second argument.
C13_Witness ==
    /\ lastCall.cmd = "startOutput"
    /\ lastCall.argc = 2 /\ lastCall.isString
    /\ lastCall.outcome = "throw_bad_argument"

QueryCommands == {"getCodecs", "getOutputs"}

\* The concatenation of the names of an enumeration, in order.
Concatenation(names) ==
    LET Flat[i \in 0..Len(names)] ==
            IF i = 0 THEN <<>> ELSE Flat[i - 1] \o names[i]
    IN Flat[Len(names)]

\* C14: getCodecs and getOutputs return (they never throw) and change
\* neither the engine nor any worker; on an engine that is not initialized
\* they return the not-initialized string without a native call, on an
\* initialized one the concatenation of the enumerated names.
C14_QueriesOnlyRead ==
    [][lastCall'.cmd \in QueryCommands =>
          /\ initialized' = initialized
          /\ workers' = workers
          /\ IF initialized
             THEN /\ lastCall'.outcome = "return_names"
                  /\ lastCall'.value = Concatenation(lastCall'.names)
             ELSE /\ lastCall'.outcome = "return_not_initialized"
                  /\ lastCall'.value = NOT_INITIALIZED_STRING
                  /\ lastNative'.ops = <<>>]_vars

\* getCodecs returned the sentinel on an engine that is not initialized,
\* with a start worker in flight.
C14_Witness ==
    /\ lastCall.cmd = "getCodecs"
    /\ lastCall.value = NOT_INITIALIZED_STRING
    /\ \E w \in InFlight : w.kind = "start" /\ w.video_encoder # Null

\* C15: the video configuration handed to obs_reset_video has a positive
\* base width and a positive base height, whatever the hint.
C15_PositiveDimensions ==
    \A w \in InFlight :
        (w.kind = "video" /\ w.pc = "executed") => (w.ovi[1] > 0 /\ w.ovi[2] > 0)

\* A string of decimal digits, possibly empty.
AllDigits(s) == \A i \in 1..Len(s) : s[i] \in Digits

\* The number a string of decimal digits denotes.
DecimalValue(s) ==
    LET Val[i \in 0..Len(s)] ==
            IF i = 0 THEN 0 ELSE 10 * Val[i - 1] + DigitVal(s[i])
    IN Val[Len(s)]

\* The decimal numeral of a number: digits only, no leading zero.
IsNumeralOf(s, n) ==
    /\ Len(s) > 0 /\ AllDigits(s)
    /\ (Len(s) > 1 => s[1] # "0")
    /\ DecimalValue(s) = n

\* C16: when resetVideo settles, the size applied is (640, 360) for a hint
\* without 'x'; for a hint W x H with W and H decimal or empty it is (W, H)
\* with 640 for an empty W and 360 for an empty H; and the promise is
\* resolved with the numerals of the applied width and height around an 'x'.
C16_SizeHintParsing ==
    lastSettled.kind = "video" =>
        LET h == lastSettled.hint
            ovi == lastSettled.ovi
            v == lastSettled.value
        IN /\ (\A i \in 1..Len(h) : h[i] # "x") =>
                 ovi = <<DEFAULT_VIDEO_WIDTH, DEFAULT_VIDEO_HEIGHT>>
           /\ \A i \in 1..Len(h) :
                 LET W == SubSeq(h, 1, i - 1)
                     H == SubSeq(h, i + 1, Len(h))
                 IN (h[i] = "x" /\ AllDigits(W) /\ AllDigits(H)) =>
                       ovi = <<IF W = <<>> THEN DEFAULT_VIDEO_WIDTH
                               ELSE DecimalValue(W),
                               IF H = <<>> THEN DEFAULT_VIDEO_HEIGHT
                               ELSE DecimalValue(H)>>
           /\ lastSettled.promise = "resolved"
           /\ \E i \in 1..Len(v) :
                 /\ v[i] = "x"
                 /\ IsNumeralOf(SubSeq(v, 1, i - 1), ovi[1])
                 /\ IsNumeralOf(SubSeq(v, i + 1, Len(v)), ovi[2])

\* resetVideo("10x") settled with width 10 and the default height.
C16_Witness ==
    /\ lastSettled.kind = "video"
    /\ lastSettled.hint = <<"1", "0", "x">>
    /\ lastSettled.ovi = <<10, DEFAULT_VIDEO_HEIGHT>>

\* The create calls of a Start-Output attempt, in the order claimed.
CreateCalls ==
    <<"obs_video_encoder_create", "obs_audio_encoder_create",
      "obs_output_create", "obs_service_create">>

IsCreateCall(op) == op \in Range(CreateCalls)

\* C17: when the native start call of a Start-Output attempt has been made,
\* the attempt has made the four create calls in the order video encoder,
\* audio encoder, output, service, and every encoder it holds is bound and,
\* like the service, attached to the output of the attempt.
C17_AllFourCreatedInOrder ==
    \A w \in InFlight :
        (w.kind = "start" /\ w.startCalled) =>
            /\ SelectSeq(w.calls, IsCreateCall) = CreateCalls
            /\ w.output # Null /\ w.streaming_service # Null
            /\ \A k \in {"video_encoder", "audio_encoder"} :
                  w[k] # Null => (k \in w.bound /\ k \in w.attached)
            /\ "streaming_service" \in w.attached

\* The handle fields of a worker that hold a live handle.
Live(w) == {k \in Kinds : w[k] # Null}

\* The sets of live session handles held by the workers in flight.
LiveHandleSets == {Live(w) : w \in InFlight} \ {{}}

\* C20: the live session handles change only in a step that is the OK or
\* Error continuation of a worker, which runs on the control thread; no step
\* of a task body changes them.
C20_HandlesWrittenOnlyInContinuation ==
    [][LiveHandleSets' # LiveHandleSets => lastSettled' # NoWorker]_vars

\* The release steps in the order claimed, each with the kind of handle it
\* needs.
ReleaseSteps ==
    << <<"output", "obs_output_stop">>,
       <<"output", "obs_output_release">>,
       <<"video_encoder", "obs_encoder_release">>,
       <<"audio_encoder", "obs_encoder_release">>,
       <<"streaming_service", "obs_service_release">> >>

\* The release calls for the handles in held: the steps of the absent
\* handles dropped, the others in their order.
ReleaseCalls(held) ==
    LET steps == SelectSeq(ReleaseSteps, LAMBDA st : st[1] \in held)
    IN [i \in 1..Len(steps) |-> steps[i][2]]

\* C18: the step that ends a Start-Output attempt makes exactly the release
\* calls for the handles the attempt holds, in the order stop output,
\* release output, release encoders, release service; every handle held is
\* released once and none is left in the worker.
C18_ReleaseOrder ==
    AttemptSettled =>
        LET held == {k \in Kinds : lastSettled.acq[k] > 0}
        IN /\ lastNative.ops = ReleaseCalls(held)
           /\ \A k \in Kinds :
                 /\ lastSettled.acq[k] <= 1
                 /\ lastSettled.rel[k] = lastSettled.acq[k]
                 /\ lastSettled[k] = Null

\* An attempt that held all four handles has ended, with five release calls.
C18_Witness ==
    /\ AttemptSettled
    /\ \A k \in Kinds : lastSettled.rel[k] = 1
    /\ Len(lastNative.ops) = 5

\* A step in which a continuation runs: it ends one worker whose Execute has
\* returned, settling its promise by OnOK if no error was set and by OnError
\* otherwise.
SettlesOne ==
    \E w \in InFlight :
        /\ w.pc = "executed" /\ w.promise = "pending"
        /\ workers' = workers (-) SetToBag({w})
        /\ BagCardinality(workers') = BagCardinality(workers) - 1
        /\ lastSettled'.kind = w.kind /\ lastSettled'.hint = w.hint
        /\ lastSettled'.pc = "settled"
        /\ lastSettled'.promise = IF w.error = "" THEN "resolved" ELSE "rejected"

\* A step in which no continuation runs: every queued worker is kept, its
\* promise pending.
SettlesNone ==
    /\ BagCardinality(workers') = BagCardinality(workers)
    /\ \A w \in BagToSet(workers') : w.promise = "pending"

\* C19: every queued worker is eventually ended by a continuation, and each
\* worker is ended once: a step either settles the promise of exactly one
\* worker whose Execute has returned and removes that worker, or settles
\* nothing.
C19_EverySettlesOnce ==
    /\ <>[](workers = EmptyBag)
    /\ [][IF lastSettled' # NoWorker THEN SettlesOne ELSE SettlesNone]_vars

\* The last of the queued workers, a start worker, has settled.
C19_Witness ==
    /\ workers = EmptyBag
    /\ lastSettled.kind = "start"
    /\ lastSettled.promise = "resolved"
====
